---- MODULE Spec2Model ----
(***************************************************************************)
(* Scholarship portal: the eligibility matching engine of server.js        *)
(* (POST /api/check-eligibility) over the User Profile Store and the       *)
(* Scholarship Catalog, together with the handlers that fill the two       *)
(* stores (register, profile update, scholarship creation).                *)
(*                                                                         *)
(* Texts are sequences of one-character strings.  A JavaScript Number is   *)
(* a record [nan, sgn, w, u]: NaN, or sgn * (w + u / Scale).  Calendar     *)
(* dates are records [year, month, date] with month 0-based as getMonth()  *)
(* returns it; the clock has day resolution.                               *)
(*                                                                         *)
(* Spec is the server.  SpecIncome and SpecAge run parseIncome and         *)
(* calculateAge on their own, over arguments drawn from bounded sets.      *)
(***************************************************************************)
EXTENDS Integers, Sequences, FiniteSets, TLC

(***************************************************************************)
(* Bounds of the model.                                                    *)
(***************************************************************************)
MaxCatalog == 2      \* scholarships the catalog holds at most
MaxClock == 2        \* days the clock advances at most

(***************************************************************************)
(* JavaScript Number: NaN or a signed decimal in twentieths.               *)
(***************************************************************************)
Scale == 2 * 10

NaN == [nan |-> TRUE, sgn |-> 1, w |-> 0, u |-> 0]

Num(w, u) == [nan |-> FALSE, sgn |-> 1, w |-> w, u |-> u]

Neg(a) == IF a.nan THEN a ELSE [a EXCEPT !.sgn = 0 - a.sgn]

\* a < b of JavaScript: false as soon as one side is NaN
NumLess(a, b) ==
  /\ ~a.nan
  /\ ~b.nan
  /\ \/ a.sgn * a.w < b.sgn * b.w
     \/ /\ a.sgn * a.w = b.sgn * b.w
        /\ a.sgn * a.u < b.sgn * b.u

\* a > b of JavaScript
NumGreater(a, b) == NumLess(b, a)

\* a + b of JavaScript, for operands that are NaN or not negative
NumAdd(a, b) ==
  IF a.nan \/ b.nan THEN NaN
  ELSE Num(a.w + b.w + ((a.u + b.u) \div Scale), (a.u + b.u) % Scale)

\* a / 2 of JavaScript, for an operand that is NaN or not negative
NumHalf(a) ==
  IF a.nan THEN NaN
  ELSE Num(a.w \div 2, (a.u + Scale * (a.w % 2)) \div 2)

\* a * k of JavaScript for a whole k that is a multiple of Scale
NumTimes(a, k) ==
  IF a.nan THEN NaN
  ELSE [a EXCEPT !.w = a.w * k + a.u * (k \div Scale), !.u = 0]

\* x || 0 of JavaScript on a Number: NaN and 0 are falsy
OrZero(a) == IF a.nan \/ (a.w = 0 /\ a.u = 0) THEN Num(0, 0) ELSE a

(***************************************************************************)
(* Texts.                                                                  *)
(***************************************************************************)
Digits == <<"0", "1", "2", "3", "4", "5", "6", "7", "8", "9">>

IsDigit(c) == \E i \in 1..10 : Digits[i] = c

DigitVal(c) == (CHOOSE i \in 1..10 : Digits[i] = c) - 1

UpperCase == <<"A", "B", "C", "D", "E", "F", "G", "H", "I", "J", "K", "L", "M",
               "N", "O", "P", "Q", "R", "S", "T", "U", "V", "W", "X", "Y", "Z">>

LowerCase == <<"a", "b", "c", "d", "e", "f", "g", "h", "i", "j", "k", "l", "m",
               "n", "o", "p", "q", "r", "s", "t", "u", "v", "w", "x", "y", "z">>

\* String.prototype.toLowerCase, one character
LowerChar(c) ==
  IF \E i \in 1..26 : UpperCase[i] = c
  THEN LowerCase[CHOOSE i \in 1..26 : UpperCase[i] = c]
  ELSE c

toLowerCase(s) == [i \in 1..Len(s) |-> LowerChar(s[i])]

\* the characters the class \s matches, among those of the alphabet
IsSpace(c) == c \in {" ", "\t", "\n"}

\* String.prototype.includes
includes(s, sub) ==
  \E i \in 0..(Len(s) - Len(sub)) :
    \A j \in 1..Len(sub) : s[i + j] = sub[j]

\* the position of the first c in s from position i on, or Len(s) + 1
RECURSIVE IndexFrom(_, _, _)
IndexFrom(s, c, i) ==
  IF i > Len(s) THEN Len(s) + 1
  ELSE IF s[i] = c THEN i
  ELSE IndexFrom(s, c, i + 1)

\* the length of the longest run of digits of s that starts at position i
RECURSIVE DigitRun(_, _)
DigitRun(s, i) ==
  IF i > Len(s) \/ ~IsDigit(s[i]) THEN 0 ELSE 1 + DigitRun(s, i + 1)

\* the value of the digits s[i..j]
RECURSIVE DigitsValue(_, _, _)
DigitsValue(s, i, j) ==
  IF j < i THEN 0 ELSE 10 * DigitsValue(s, i, j - 1) + DigitVal(s[j])

\* the number of leading white-space characters of s from position i on
RECURSIVE SpaceRun(_, _)
SpaceRun(s, i) ==
  IF i > Len(s) \/ ~IsSpace(s[i]) THEN 0 ELSE 1 + SpaceRun(s, i + 1)

\* the character U+20B9, the rupee sign
Rupee == "rupee"

(***************************************************************************)
(* parseFloat: skip leading white space, read an optional sign, then the   *)
(* longest prefix digits [. digits] or . digits; NaN when no digit is      *)
(* read.  Of the fraction the first digit is kept (the texts of the model  *)
(* carry at most one), and the texts hold no exponent and no "Infinity".   *)
(***************************************************************************)
parseFloat(s) ==
  LET b == 1 + SpaceRun(s, 1)
      signed == b <= Len(s) /\ s[b] \in {"+", "-"}
      i == IF signed THEN b + 1 ELSE b
      n == DigitRun(s, i)
      dot == i + n <= Len(s) /\ s[i + n] = "."
      f == IF dot THEN DigitRun(s, i + n + 1) ELSE 0
      whole == DigitsValue(s, i, i + n - 1)
      frac == IF f = 0 THEN 0 ELSE DigitVal(s[i + n + 1]) * (Scale \div 10)
      magnitude == Num(whole, frac)
  IN  IF n = 0 /\ f = 0 THEN NaN
      ELSE IF signed /\ s[b] = "-" THEN Neg(magnitude)
      ELSE magnitude

(***************************************************************************)
(* Unset values: undefined of JavaScript, per type.                        *)
(***************************************************************************)
Undefined == "undefined"

NoText == <<"undefined">>

NoDate == [year |-> 0, month |-> 0, date |-> 0]

\* null stored in an array path of a document
NullArray == <<"null">>

\* !x of JavaScript on an optional text: undefined and "" are falsy
Falsy(s) == s = NoText \/ s = <<>>

(***************************************************************************)
(* parseIncome.  s.replace(/[...]/g, '') keeps the characters of s outside  *)
(* the class: SelectSeq.                                                   *)
(***************************************************************************)
Lakh == 100000
Crore == 10000000

IsMoneyNoise(c) == c = Rupee \/ c = "," \/ IsSpace(c)

NotMoneyNoise(c) == ~IsMoneyNoise(c)

IsDigitOrDot(c) == IsDigit(c) \/ c = "."

\* cleanIncome.split('-'): the first two pieces
SplitHyphen(s) ==
  LET i == IndexFrom(s, "-", 1)
      j == IndexFrom(s, "-", i + 1)
  IN  << SubSeq(s, 1, i - 1), SubSeq(s, i + 1, j - 1) >>

\* parseIncome testing the unit words before the hyphen
parseIncomeUnitsFirst(incomeString) ==
  IF Falsy(incomeString) THEN Num(0, 0)
  ELSE
    LET cleanIncome == SelectSeq(incomeString, NotMoneyNoise)
        range == SplitHyphen(cleanIncome)
        lowered == toLowerCase(cleanIncome)
        numerals == SelectSeq(cleanIncome, IsDigitOrDot)
    IN  IF includes(lowered, <<"l", "a", "k", "h">>)
        THEN NumTimes(parseFloat(numerals), Lakh)
        ELSE IF includes(lowered, <<"c", "r", "o", "r", "e">>)
        THEN NumTimes(parseFloat(numerals), Crore)
        ELSE IF includes(cleanIncome, <<"-">>)
        THEN NumHalf(NumAdd(parseFloat(range[1]), parseFloat(range[2])))
        ELSE OrZero(parseFloat(cleanIncome))

\* parseIncome looking for the unit words in the text as typed
parseIncomeCaseSensitive(incomeString) ==
  IF Falsy(incomeString) THEN Num(0, 0)
  ELSE
    LET cleanIncome == SelectSeq(incomeString, NotMoneyNoise)
        range == SplitHyphen(cleanIncome)
        numerals == SelectSeq(cleanIncome, IsDigitOrDot)
    IN  IF includes(cleanIncome, <<"-">>)
        THEN NumHalf(NumAdd(parseFloat(range[1]), parseFloat(range[2])))
        ELSE IF includes(cleanIncome, <<"l", "a", "k", "h">>)
        THEN NumTimes(parseFloat(numerals), Lakh)
        ELSE IF includes(cleanIncome, <<"c", "r", "o", "r", "e">>)
        THEN NumTimes(parseFloat(numerals), Crore)
        ELSE OrZero(parseFloat(cleanIncome))

parseIncome(incomeString) ==
  IF Falsy(incomeString) THEN Num(0, 0)
  ELSE
    LET cleanIncome == SelectSeq(incomeString, NotMoneyNoise)
        range == SplitHyphen(cleanIncome)
        lower == parseFloat(range[1])
        upper == parseFloat(range[2])
        lowered == toLowerCase(cleanIncome)
        numerals == SelectSeq(cleanIncome, IsDigitOrDot)
    IN  IF includes(cleanIncome, <<"-">>)
        THEN NumHalf(NumAdd(lower, upper))
        ELSE IF includes(lowered, <<"l", "a", "k", "h">>)
        THEN NumTimes(parseFloat(numerals), Lakh)
        ELSE IF includes(lowered, <<"c", "r", "o", "r", "e">>)
        THEN NumTimes(parseFloat(numerals), Crore)
        ELSE OrZero(parseFloat(cleanIncome))

(***************************************************************************)
(* Calendar and calculateAge                                               *)
(***************************************************************************)
Date(y, m, d) == [year |-> y, month |-> m, date |-> d]

IsLeap(y) == (y % 4 = 0 /\ y % 100 # 0) \/ y % 400 = 0

DaysInMonth(y, m) ==
  IF m = 1 THEN (IF IsLeap(y) THEN 29 ELSE 28)
  ELSE IF m \in {3, 5, 8, 10} THEN 30
  ELSE 31

NextDay(t) ==
  IF t.date < DaysInMonth(t.year, t.month) THEN [t EXCEPT !.date = t.date + 1]
  ELSE IF t.month < 11 THEN Date(t.year, t.month + 1, 1)
  ELSE Date(t.year + 1, 0, 1)

\* a < b on Date objects
DateLess(a, b) ==
  \/ a.year < b.year
  \/ a.year = b.year /\ a.month < b.month
  \/ a.year = b.year /\ a.month = b.month /\ a.date < b.date

\* calculateAge counting the birthday itself as not yet reached
calculateAgeBirthdayLate(dateOfBirth, today) ==
  IF dateOfBirth = NoDate THEN 0
  ELSE
    LET age == today.year - dateOfBirth.year
        monthDiff == today.month - dateOfBirth.month
    IN  IF monthDiff < 0 \/ (monthDiff = 0 /\ today.date <= dateOfBirth.date)
        THEN age - 1
        ELSE age

calculateAge(dateOfBirth, today) ==
  IF dateOfBirth = NoDate THEN 0
  ELSE
    LET age == today.year - dateOfBirth.year
        monthDiff == today.month - dateOfBirth.month
    IN  IF monthDiff < 0 \/ (monthDiff = 0 /\ today.date < dateOfBirth.date)
        THEN age - 1
        ELSE age

(***************************************************************************)
(* State: the two collections, the system clock, and the response and      *)
(* local variables of the handler that ran last.                           *)
(***************************************************************************)
VARIABLES users, catalog, clock, res, locals

vars == << users, catalog, clock, res, locals >>

\* the day the server starts on: 14 March 2025
StartDate == Date(2025, 2, 14)

RECURSIVE DateAt(_)
DateAt(n) == IF n = 0 THEN StartDate ELSE NextDay(DateAt(n - 1))

\* new Date()
Today == DateAt(clock)

(***************************************************************************)
(* userSchema: the profile a new user document has (schema defaults).      *)
(***************************************************************************)
DefaultProfile ==
  [ fullName |-> Undefined, phone |-> Undefined, dateOfBirth |-> NoDate,
    gender |-> Undefined, category |-> Undefined,
    currentEducation |-> Undefined, fieldOfStudy |-> Undefined,
    institution |-> Undefined, cgpa |-> NoText, familyIncome |-> NoText,
    parentOccupation |-> Undefined, careerGoals |-> Undefined,
    isProfileComplete |-> FALSE, profileCompletionPercentage |-> 0 ]

GenderEnum == {"Male", "Female", "Other", "Prefer not to say"}

CategoryEnum == {"General", "OBC", "SC", "ST", "EWS"}

(***************************************************************************)
(* scholarshipSchema: the defaults of eligibilityCriteria.                 *)
(***************************************************************************)
DefaultMaxCgpa == 10
DefaultMaxFamilyIncome == 999999999
DefaultMaxAge == 100

DefaultCriteria ==
  [ minCgpa |-> Num(0, 0), maxCgpa |-> Num(DefaultMaxCgpa, 0),
    requiredEducation |-> <<>>, requiredFields |-> <<>>,
    minFamilyIncome |-> Num(0, 0),
    maxFamilyIncome |-> Num(DefaultMaxFamilyIncome, 0),
    allowedGenders |-> <<>>, allowedCategories |-> <<>>,
    minAge |-> 0, maxAge |-> DefaultMaxAge ]

(***************************************************************************)
(* Math.round(n / d * 100) for whole n >= 0 and d > 0: floor(x + 1/2).     *)
(* Every result carries at least the CGPA check, so d > 0 in the handler.  *)
(***************************************************************************)
MathRoundPercent(n, d) == (2 * 100 * n + d) \div (2 * d)

\* an unset value taken for a member of every array
ArrayIncludesUnset(arr, x) ==
  x = Undefined \/ \E i \in 1..Len(arr) : arr[i] = x

\* Array.prototype.includes on an array of strings
ArrayIncludes(arr, x) == \E i \in 1..Len(arr) : arr[i] = x

\* checks.filter(c => c.passed).length
RECURSIVE PassedCount(_)
PassedCount(checks) ==
  IF checks = <<>> THEN 0
  ELSE (IF Head(checks).passed THEN 1 ELSE 0) + PassedCount(Tail(checks))

Check(criterion, passed) == [criterion |-> criterion, passed |-> passed]

(***************************************************************************)
(* The loop body.  st = [isEligible, checks] are the locals of one         *)
(* iteration; each check is the statement of the source that pushes one    *)
(* check at most and clears isEligible when the check fails.               *)
(***************************************************************************)
\* the failing branch without its isEligible = false
FailedKeepsFlag(st, criterion) ==
  [ st EXCEPT !.checks = Append(@, Check(criterion, FALSE)) ]

Failed(st, criterion) ==
  [ isEligible |-> FALSE,
    checks |-> Append(st.checks, Check(criterion, FALSE)) ]

Passed(st, criterion) ==
  [ st EXCEPT !.checks = Append(@, Check(criterion, TRUE)) ]

CgpaCheck(st, criteria, userCgpa) ==
  IF NumLess(userCgpa, criteria.minCgpa) \/ NumGreater(userCgpa, criteria.maxCgpa)
  THEN Failed(st, "CGPA")
  ELSE Passed(st, "CGPA")

\* an empty requiredEducation reported as a passing check
EducationCheckAlwaysEmits(st, criteria, profile) ==
  IF Len(criteria.requiredEducation) > 0
     /\ ~ArrayIncludes(criteria.requiredEducation, profile.currentEducation)
  THEN [ isEligible |-> FALSE,
         checks |-> Append(st.checks, Check("Education Level", FALSE)) ]
  ELSE [ st EXCEPT !.checks = Append(@, Check("Education Level", TRUE)) ]

EducationCheck(st, criteria, profile) ==
  IF Len(criteria.requiredEducation) > 0
     /\ ~ArrayIncludes(criteria.requiredEducation, profile.currentEducation)
  THEN Failed(st, "Education Level")
  ELSE IF Len(criteria.requiredEducation) > 0
  THEN Passed(st, "Education Level")
  ELSE st

FieldCheck(st, criteria, profile) ==
  IF Len(criteria.requiredFields) > 0
     /\ ~ArrayIncludes(criteria.requiredFields, profile.fieldOfStudy)
  THEN Failed(st, "Field of Study")
  ELSE IF Len(criteria.requiredFields) > 0
  THEN Passed(st, "Field of Study")
  ELSE st

IncomeCheck(st, criteria, userIncome) ==
  IF NumGreater(userIncome, criteria.maxFamilyIncome)
     \/ NumLess(userIncome, criteria.minFamilyIncome)
  THEN Failed(st, "Family Income")
  ELSE Passed(st, "Family Income")

\* "All" honoured only as the first element of allowedGenders
GenderCheckAllFirst(st, criteria, profile) ==
  IF Len(criteria.allowedGenders) > 0
     /\ criteria.allowedGenders[1] # "All"
     /\ ~ArrayIncludes(criteria.allowedGenders, profile.gender)
  THEN [ isEligible |-> FALSE,
         checks |-> Append(st.checks, Check("Gender", FALSE)) ]
  ELSE IF Len(criteria.allowedGenders) > 0 /\ criteria.allowedGenders[1] # "All"
  THEN [ st EXCEPT !.checks = Append(@, Check("Gender", TRUE)) ]
  ELSE st

GenderCheck(st, criteria, profile) ==
  IF Len(criteria.allowedGenders) > 0
     /\ ~ArrayIncludes(criteria.allowedGenders, "All")
     /\ ~ArrayIncludes(criteria.allowedGenders, profile.gender)
  THEN Failed(st, "Gender")
  ELSE IF Len(criteria.allowedGenders) > 0
          /\ ~ArrayIncludes(criteria.allowedGenders, "All")
  THEN Passed(st, "Gender")
  ELSE st

CategoryCheck(st, criteria, profile) ==
  IF Len(criteria.allowedCategories) > 0
     /\ ~ArrayIncludes(criteria.allowedCategories, profile.category)
  THEN Failed(st, "Category")
  ELSE IF Len(criteria.allowedCategories) > 0
  THEN Passed(st, "Category")
  ELSE st

\* the age check left out when the user has no date of birth
AgeCheckSkipsUnknown(st, criteria, userAge) ==
  IF userAge = 0 THEN st
  ELSE IF userAge < criteria.minAge \/ userAge > criteria.maxAge
  THEN [ isEligible |-> FALSE,
         checks |-> Append(st.checks, Check("Age", FALSE)) ]
  ELSE [ st EXCEPT !.checks = Append(@, Check("Age", TRUE)) ]

AgeCheck(st, criteria, userAge) ==
  IF userAge < criteria.minAge \/ userAge > criteria.maxAge
  THEN Failed(st, "Age")
  ELSE Passed(st, "Age")

\* the income check run ahead of the education and field checks
RunChecksIncomeEarly(criteria, profile, userAge, userIncome, userCgpa) ==
  LET s0 == [isEligible |-> TRUE, checks |-> <<>>]
      s1 == IF NumLess(userCgpa, criteria.minCgpa)
               \/ NumGreater(userCgpa, criteria.maxCgpa)
            THEN [isEligible |-> FALSE, checks |-> << Check("CGPA", FALSE) >>]
            ELSE [isEligible |-> TRUE, checks |-> << Check("CGPA", TRUE) >>]
      s2 == IF NumGreater(userIncome, criteria.maxFamilyIncome)
               \/ NumLess(userIncome, criteria.minFamilyIncome)
            THEN [isEligible |-> FALSE,
                  checks |-> Append(s1.checks, Check("Family Income", FALSE))]
            ELSE [s1 EXCEPT !.checks = Append(@, Check("Family Income", TRUE))]
      s3 == EducationCheck(s2, criteria, profile)
      s4 == FieldCheck(s3, criteria, profile)
      s5 == GenderCheck(s4, criteria, profile)
      s6 == CategoryCheck(s5, criteria, profile)
  IN  AgeCheck(s6, criteria, userAge)

\* the loop body leaving at the first failing check
RunChecksShortCircuit(criteria, profile, userAge, userIncome, userCgpa) ==
  LET s0 == [isEligible |-> TRUE, checks |-> <<>>]
      s1 == CgpaCheck(s0, criteria, userCgpa)
      s2 == IF s1.isEligible THEN EducationCheck(s1, criteria, profile) ELSE s1
      s3 == IF s2.isEligible THEN FieldCheck(s2, criteria, profile) ELSE s2
      s4 == IF s3.isEligible THEN IncomeCheck(s3, criteria, userIncome) ELSE s3
      s5 == IF s4.isEligible THEN GenderCheck(s4, criteria, profile) ELSE s4
      s6 == IF s5.isEligible THEN CategoryCheck(s5, criteria, profile) ELSE s5
  IN  IF s6.isEligible THEN AgeCheck(s6, criteria, userAge) ELSE s6

\* the seven checks in the order the source runs them
RunChecks(criteria, profile, userAge, userIncome, userCgpa) ==
  LET s0 == [isEligible |-> TRUE, checks |-> <<>>]
      s1 == CgpaCheck(s0, criteria, userCgpa)
      s2 == EducationCheck(s1, criteria, profile)
      s3 == FieldCheck(s2, criteria, profile)
      s4 == IncomeCheck(s3, criteria, userIncome)
      s5 == GenderCheck(s4, criteria, profile)
      s6 == CategoryCheck(s5, criteria, profile)
  IN  AgeCheck(s6, criteria, userAge)

\* the deadline day itself counted as expired
DeadlineCheckInclusive(st, scholarship, now) ==
  IF scholarship.applicationDeadline # NoDate
     /\ ~DateLess(now, scholarship.applicationDeadline)
  THEN [isEligible |-> FALSE, checks |-> st.checks, deadlineStatus |-> "Expired"]
  ELSE [isEligible |-> st.isEligible, checks |-> st.checks,
        deadlineStatus |-> "Active"]

\* the deadline check: deadlineStatus, and isEligible cleared when expired
DeadlineCheck(st, scholarship, now) ==
  IF scholarship.applicationDeadline # NoDate
     /\ DateLess(scholarship.applicationDeadline, now)
  THEN [isEligible |-> FALSE, checks |-> st.checks, deadlineStatus |-> "Expired"]
  ELSE [isEligible |-> st.isEligible, checks |-> st.checks,
        deadlineStatus |-> "Active"]

\* Math.floor in place of Math.round
matchPercentageFloor(checks) == (100 * PassedCount(checks)) \div Len(checks)

\* the percentage taken over the seven criteria, emitted or not
matchPercentageOfSeven(checks) == MathRoundPercent(PassedCount(checks), 7)

matchPercentage(checks) == MathRoundPercent(PassedCount(checks), Len(checks))

\* one iteration of the loop: the element pushed on eligibilityResults
EligibilityResult(scholarship, profile, userAge, userIncome, userCgpa, now) ==
  LET st == DeadlineCheck(
              RunChecks(scholarship.eligibilityCriteria, profile,
                        userAge, userIncome, userCgpa),
              scholarship, now)
  IN  [ scholarship |-> [id |-> scholarship.id, title |-> scholarship.title,
                         applicationDeadline |-> scholarship.applicationDeadline],
        isEligible |-> st.isEligible,
        deadlineStatus |-> st.deadlineStatus,
        eligibilityChecks |-> st.checks,
        matchPercentage |-> matchPercentage(st.checks) ]

(***************************************************************************)
(* eligibilityResults.sort(comparator): Array.prototype.sort is stable     *)
(* (ECMAScript 2019), so with this comparator, which orders the results    *)
(* by a key, the outcome is that of a stable insertion sort.               *)
(***************************************************************************)
\* matchPercentage ascending
ComparatorAscending(a, b) ==
  IF a.isEligible /\ ~b.isEligible THEN 0 - 1
  ELSE IF ~a.isEligible /\ b.isEligible THEN 1
  ELSE a.matchPercentage - b.matchPercentage

\* a comparator that never answers 0
ComparatorNeverZero(a, b) ==
  IF a.isEligible /\ ~b.isEligible THEN 0 - 1
  ELSE IF ~a.isEligible /\ b.isEligible THEN 1
  ELSE IF b.matchPercentage >= a.matchPercentage THEN 1
  ELSE 0 - 1

Comparator(a, b) ==
  IF a.isEligible /\ ~b.isEligible THEN 0 - 1
  ELSE IF ~a.isEligible /\ b.isEligible THEN 1
  ELSE b.matchPercentage - a.matchPercentage

\* x placed behind every element that does not sort after it
RECURSIVE InsertSorted(_, _)
InsertSorted(sorted, x) ==
  IF sorted = <<>> THEN << x >>
  ELSE IF Comparator(Head(sorted), x) > 0 THEN << x >> \o sorted
  ELSE << Head(sorted) >> \o InsertSorted(Tail(sorted), x)

RECURSIVE SortResults(_)
SortResults(results) ==
  IF results = <<>> THEN <<>>
  ELSE InsertSorted(SortResults(SubSeq(results, 1, Len(results) - 1)),
                    results[Len(results)])

\* Scholarship.find({}) : the filter on isActive left out
FindAll(docs) == SelectSeq(docs, LAMBDA d : TRUE)

\* Scholarship.find({ isActive: true }): the active documents, in store order
FindActive(docs) == SelectSeq(docs, LAMBDA d : d.isActive)

\* the count taken over the results whose checks all passed
EligibleCountByChecks(results) ==
  Len(SelectSeq(results, LAMBDA r : r.matchPercentage = 100))

\* eligibilityResults.filter(r => r.isEligible).length
EligibleCount(results) == Len(SelectSeq(results, LAMBDA r : r.isEligible))

(***************************************************************************)
(* Inputs of the model: the emails, profile forms and scholarship forms    *)
(* the requests carry.                                                     *)
(***************************************************************************)
Asha == "asha@example.com"

Emails == {Asha}

\* the email of a check-eligibility request: a user's, none, or a stranger's
RequestEmails == Emails \cup {"", "nobody@example.com"}

Text5Lakh == <<"5", " ", "l", "a", "k", "h">>

TextRange == <<Rupee, "3", "0", "0", ",", "0", "0", "0", "-", "5", "0", "0", ",", "0", "0", "0">>

\* a dash typed in place of an amount
TextDash == <<"-">>

Text9 == <<"9", ".", "0">>

Text7Half == <<"7", ".", "5">>

TextNoNumber == <<"a", "b", "c">>

EmptyForm ==
  [ fullName |-> Undefined, phone |-> Undefined, dateOfBirth |-> NoDate,
    gender |-> Undefined, category |-> Undefined,
    currentEducation |-> Undefined, fieldOfStudy |-> Undefined,
    institution |-> Undefined, cgpa |-> NoText, familyIncome |-> NoText,
    parentOccupation |-> Undefined, careerGoals |-> Undefined ]

\* all twelve fields filled
FormAsha ==
  [ fullName |-> "Asha", phone |-> "9800000001",
    dateOfBirth |-> Date(2005, 2, 15),
    gender |-> "Female", category |-> "OBC",
    currentEducation |-> "Undergraduate", fieldOfStudy |-> "Engineering",
    institution |-> "IIT", cgpa |-> Text9, familyIncome |-> Text5Lakh,
    parentOccupation |-> "Farmer", careerGoals |-> "Research" ]

\* nine fields filled: no date of birth, field of study or goals
FormRavi ==
  [ EmptyForm EXCEPT
      !.fullName = "Ravi", !.phone = "9800000002",
      !.gender = "Male", !.category = "General",
      !.currentEducation = "Postgraduate", !.parentOccupation = "Farmer",
      !.institution = "DU", !.cgpa = Text7Half, !.familyIncome = TextRange ]

\* nine fields filled, the two numeric texts unparsable
FormGarbled ==
  [ FormRavi EXCEPT
      !.fullName = "Mira", !.gender = "Female", !.category = "SC",
      !.cgpa = TextNoNumber, !.familyIncome = TextDash ]

\* a single field
FormPhoneOnly == [ EmptyForm EXCEPT !.phone = "9800000003" ]

\* a gender the schema's enum does not hold
FormBadGender == [ FormAsha EXCEPT !.gender = " " ]

ProfileForms == {FormAsha, FormRavi, FormGarbled, FormPhoneOnly, FormBadGender}

FarDeadline == Date(2026, 0, 1)

FormOpen ==
  [ title |-> "Open", isActive |-> TRUE, applicationDeadline |-> FarDeadline,
    eligibilityCriteria |-> DefaultCriteria ]

\* the deadline falls on the day after the start day
FormMerit ==
  [ title |-> "Merit", isActive |-> TRUE,
    applicationDeadline |-> NextDay(StartDate),
    eligibilityCriteria |->
      [ DefaultCriteria EXCEPT
          !.minCgpa = Num(8, 10),
          !.requiredEducation = <<"Undergraduate", "Postgraduate">>,
          !.requiredFields = <<"Engineering", "Technology">>,
          !.maxFamilyIncome = Num(450000, 0),
          !.allowedGenders = <<"All">>,
          !.allowedCategories = <<"General", "OBC", "SC", "ST">>,
          !.minAge = 17, !.maxAge = 25 ] ]

\* the deadline is past from the start
FormWomen ==
  [ title |-> "Women in STEM", isActive |-> TRUE,
    applicationDeadline |-> Date(2024, 10, 30),
    eligibilityCriteria |->
      [ DefaultCriteria EXCEPT
          !.minCgpa = Num(7, 10),
          !.requiredEducation = <<"Undergraduate", "Postgraduate">>,
          !.requiredFields = <<"Engineering", "Science">>,
          !.maxFamilyIncome = Num(1000000, 0),
          !.allowedGenders = <<"Female">>,
          !.allowedCategories = <<"General", "OBC", "SC", "ST", "EWS">>,
          !.minAge = 18, !.maxAge = 30 ] ]

FormNeed ==
  [ title |-> "Need based", isActive |-> TRUE,
    applicationDeadline |-> FarDeadline,
    eligibilityCriteria |->
      [ DefaultCriteria EXCEPT
          !.minCgpa = Num(6, 0),
          !.requiredEducation = <<"Undergraduate", "Postgraduate">>,
          !.minFamilyIncome = Num(450000, 0),
          !.maxFamilyIncome = Num(500000, 0),
          !.allowedGenders = <<"Male", "All">>,
          !.allowedCategories = <<"SC", "ST", "OBC", "EWS">>,
          !.minAge = 20, !.maxAge = 28 ] ]

\* no deadline: the schema requires one
FormNoDeadline == [ FormOpen EXCEPT !.title = "Undated", !.applicationDeadline = NoDate ]

FormInactive == [ FormOpen EXCEPT !.title = "Closed", !.isActive = FALSE ]

\* requiredEducation: null in the body: the document stores null, not []
FormMalformed ==
  [ FormOpen EXCEPT !.title = "Imported",
                    !.eligibilityCriteria.requiredEducation = NullArray ]

ScholarshipForms ==
  { FormOpen, FormMerit, FormWomen, FormNeed, FormInactive, FormNoDeadline,
    FormMalformed }

(***************************************************************************)
(* Responses.                                                              *)
(***************************************************************************)
NoLocals == [route |-> "none"]

Reply(route, status) == [route |-> route, status |-> status]

Init ==
  /\ users = << >>
  /\ catalog = << >>
  /\ clock = 0
  /\ res = Reply("none", 0)
  /\ locals = NoLocals

(***************************************************************************)
(* The clock advances by a day.                                            *)
(***************************************************************************)
Tick ==
  /\ clock < MaxClock
  /\ clock' = clock + 1
  /\ UNCHANGED << users, catalog, res, locals >>

(***************************************************************************)
(* POST /register                                                          *)
(***************************************************************************)
Register(name, email) ==
  /\ locals' = NoLocals
  /\ UNCHANGED << catalog, clock >>
  /\ IF email \in DOMAIN users
     THEN /\ res' = Reply("register", 409)
          /\ UNCHANGED users
     ELSE /\ users' = [e \in DOMAIN users \cup {email} |->
                         IF e = email
                         THEN [name |-> name, profile |-> DefaultProfile]
                         ELSE users[e]]
          /\ res' = Reply("register", 201)

(***************************************************************************)
(* POST /api/profile/update                                                *)
(***************************************************************************)
\* field && field.trim() !== '' on a short text kept as a whole
FilledWord(x) == x \notin {Undefined, "", " "}

\* field && field.trim() !== '' on a text kept by character
FilledText(s) == ~Falsy(s) /\ \E i \in 1..Len(s) : ~IsSpace(s[i])

\* requiredFields.filter(field => field && field.trim() !== '').length
FilledFields(form) ==
  Cardinality({f \in {"fullName", "phone", "gender", "category",
                      "currentEducation", "fieldOfStudy", "institution",
                      "parentOccupation", "careerGoals"} : FilledWord(form[f])})
    + Cardinality({f \in {"cgpa", "familyIncome"} : FilledText(form[f])})
    + (IF form.dateOfBirth # NoDate THEN 1 ELSE 0)

RequiredFieldCount == 12

CompletionThreshold == 70

completionPercentage(form) ==
  MathRoundPercent(FilledFields(form), RequiredFieldCount)

\* x || old
OrWord(x, old) == IF x \in {Undefined, ""} THEN old ELSE x

OrText(s, old) == IF Falsy(s) THEN old ELSE s

OrDate(d, old) == IF d = NoDate THEN old ELSE d

\* the percentage taken over the fields of the profile as merged
UpdatedProfileCountsStored(old, form) ==
  LET merged ==
        [ fullName |-> OrWord(form.fullName, old.fullName),
          phone |-> OrWord(form.phone, old.phone),
          dateOfBirth |-> OrDate(form.dateOfBirth, old.dateOfBirth),
          gender |-> OrWord(form.gender, old.gender),
          category |-> OrWord(form.category, old.category),
          currentEducation |-> OrWord(form.currentEducation, old.currentEducation),
          fieldOfStudy |-> OrWord(form.fieldOfStudy, old.fieldOfStudy),
          institution |-> OrWord(form.institution, old.institution),
          cgpa |-> OrText(form.cgpa, old.cgpa),
          familyIncome |-> OrText(form.familyIncome, old.familyIncome),
          parentOccupation |-> OrWord(form.parentOccupation, old.parentOccupation),
          careerGoals |-> OrWord(form.careerGoals, old.careerGoals) ]
  IN  [ fullName |-> merged.fullName, phone |-> merged.phone,
        dateOfBirth |-> merged.dateOfBirth, gender |-> merged.gender,
        category |-> merged.category,
        currentEducation |-> merged.currentEducation,
        fieldOfStudy |-> merged.fieldOfStudy,
        institution |-> merged.institution, cgpa |-> merged.cgpa,
        familyIncome |-> merged.familyIncome,
        parentOccupation |-> merged.parentOccupation,
        careerGoals |-> merged.careerGoals,
        isProfileComplete |->
          completionPercentage(merged) >= CompletionThreshold,
        profileCompletionPercentage |-> completionPercentage(merged) ]

\* the profile the handler assigns to user.profile
UpdatedProfile(old, form) ==
  [ fullName |-> OrWord(form.fullName, old.fullName),
    phone |-> OrWord(form.phone, old.phone),
    dateOfBirth |-> OrDate(form.dateOfBirth, old.dateOfBirth),
    gender |-> OrWord(form.gender, old.gender),
    category |-> OrWord(form.category, old.category),
    currentEducation |-> OrWord(form.currentEducation, old.currentEducation),
    fieldOfStudy |-> OrWord(form.fieldOfStudy, old.fieldOfStudy),
    institution |-> OrWord(form.institution, old.institution),
    cgpa |-> OrText(form.cgpa, old.cgpa),
    familyIncome |-> OrText(form.familyIncome, old.familyIncome),
    parentOccupation |-> OrWord(form.parentOccupation, old.parentOccupation),
    careerGoals |-> OrWord(form.careerGoals, old.careerGoals),
    isProfileComplete |-> completionPercentage(form) >= CompletionThreshold,
    profileCompletionPercentage |-> completionPercentage(form) ]

\* user.save() validates the enum fields that are set
ValidProfile(profile) ==
  /\ profile.gender \in GenderEnum \cup {Undefined}
  /\ profile.category \in CategoryEnum \cup {Undefined}

\* locals keeps req.body of an update that was saved
ProfileUpdate(email, form) ==
  /\ UNCHANGED << catalog, clock >>
  /\ IF email \notin DOMAIN users
     THEN /\ res' = Reply("profile/update", 404)
          /\ locals' = NoLocals
          /\ UNCHANGED users
     ELSE LET profile == UpdatedProfile(users[email].profile, form)
          IN  IF ~ValidProfile(profile)
              THEN /\ res' = Reply("profile/update", 500)
                   /\ locals' = NoLocals
                   /\ UNCHANGED users
              ELSE /\ users' = [users EXCEPT ![email] =
                                  [name |-> OrWord(form.fullName, @.name),
                                   profile |-> profile]]
                   /\ res' = Reply("profile/update", 200)
                   /\ locals' = [ route |-> "profile/update",
                                  email |-> email, form |-> form ]

(***************************************************************************)
(* POST /api/scholarships (authenticateUser, createScholarship)            *)
(***************************************************************************)
\* scholarship.save() validates the fields the schema requires
ValidScholarship(form) == form.applicationDeadline # NoDate

CreateScholarship(tokenEmail, form) ==
  /\ Len(catalog) < MaxCatalog
  /\ locals' = NoLocals
  /\ UNCHANGED << users, clock >>
  /\ IF tokenEmail \notin DOMAIN users
     THEN /\ res' = Reply("scholarships", 401)
          /\ UNCHANGED catalog
     ELSE IF ~ValidScholarship(form)
     THEN /\ res' = Reply("scholarships", 400)
          /\ UNCHANGED catalog
     ELSE /\ catalog' = Append(catalog,
                               [ id |-> Len(catalog) + 1,
                                 title |-> form.title,
                                 isActive |-> form.isActive,
                                 applicationDeadline |-> form.applicationDeadline,
                                 eligibilityCriteria |-> form.eligibilityCriteria ])
          /\ res' = Reply("scholarships", 201)

(***************************************************************************)
(* POST /api/check-eligibility                                             *)
(***************************************************************************)
\* the loop over the scholarships found: eligibilityResults before the sort
RECURSIVE EvaluateAll(_, _, _, _, _, _)
EvaluateAll(scholarships, profile, userAge, userIncome, userCgpa, now) ==
  IF scholarships = <<>> THEN <<>>
  ELSE << EligibilityResult(Head(scholarships), profile, userAge, userIncome,
                            userCgpa, now) >>
         \o EvaluateAll(Tail(scholarships), profile, userAge, userIncome,
                        userCgpa, now)

\* the gate reading the percentage: only a profile never filled is refused
ProfileIncompleteNeverFilled(user) ==
  user.profile.profileCompletionPercentage = 0

\* !user.profile?.isProfileComplete
ProfileIncomplete(user) == ~user.profile.isProfileComplete

\* criteria.<array>.length on null: the loop body throws a TypeError
Throws(scholarship) ==
  LET criteria == scholarship.eligibilityCriteria
  IN  \/ criteria.requiredEducation = NullArray
      \/ criteria.requiredFields = NullArray
      \/ criteria.allowedGenders = NullArray
      \/ criteria.allowedCategories = NullArray

\* what the handler answers, res, and the locals it has computed by then
HandlerOutcome(email) ==
  IF email = ""
  THEN [ res |-> Reply("check-eligibility", 400), locals |-> NoLocals ]
  ELSE IF email \notin DOMAIN users
  THEN [ res |-> Reply("check-eligibility", 404), locals |-> NoLocals ]
  ELSE IF ProfileIncomplete(users[email])
  THEN [ res |-> [ route |-> "check-eligibility", status |-> 200,
                   success |-> TRUE, eligibleScholarships |-> <<>>,
                   incompleteProfile |-> TRUE ],
         locals |-> [ route |-> "check-eligibility", email |-> email,
                      profile |-> users[email].profile ] ]
  ELSE
    LET profile == users[email].profile
        userAge == calculateAge(profile.dateOfBirth, Today)
        userIncome == parseIncome(profile.familyIncome)
        userCgpa == OrZero(parseFloat(profile.cgpa))
        scholarships == FindActive(catalog)
        eligibilityResults ==
          SortResults(EvaluateAll(scholarships, profile, userAge,
                                  userIncome, userCgpa, Today))
    IN  IF \E k \in 1..Len(scholarships) : Throws(scholarships[k])
        THEN \* catch (error): nothing of the loop is sent
             [ res |-> Reply("check-eligibility", 500),
               locals |-> [ route |-> "check-eligibility", email |-> email,
                            profile |-> profile, error |-> "TypeError" ] ]
        ELSE [ res |-> [ route |-> "check-eligibility", status |-> 200,
                         success |-> TRUE,
                         totalScholarships |-> Len(scholarships),
                         eligibleScholarships |->
                           EligibleCount(eligibilityResults),
                         results |-> eligibilityResults,
                         userProfile |-> [ cgpa |-> userCgpa,
                                           income |-> userIncome,
                                           age |-> userAge ] ],
               locals |-> [ route |-> "check-eligibility", email |-> email,
                            profile |-> profile, userAge |-> userAge,
                            userIncome |-> userIncome, userCgpa |-> userCgpa,
                            scholarships |-> scholarships, now |-> Today ] ]

\* the handler run from the request to the response with nothing in between
CheckEligibilityResponse(email) ==
  LET outcome == HandlerOutcome(email)
  IN  /\ res' = outcome.res
      /\ locals' = outcome.locals

\* the handler saving the user it has read, marked complete
CheckEligibilitySavesUser(email) ==
  /\ CheckEligibilityResponse(email)
  /\ users' = IF email \in DOMAIN users
              THEN [users EXCEPT ![email].profile.isProfileComplete = TRUE]
              ELSE users
  /\ UNCHANGED << catalog, clock >>

\* the handler answering a user it has just ranked with a refusal
CheckEligibilityOncePerUser(email) ==
  /\ IF "scholarships" \in DOMAIN locals /\ locals.email = email
     THEN /\ res' = Reply("check-eligibility", 429)
          /\ locals' = locals
     ELSE CheckEligibilityResponse(email)
  /\ UNCHANGED << users, catalog, clock >>

\* the handler reads the two collections and writes to neither
CheckEligibility(email) ==
  /\ CheckEligibilityResponse(email)
  /\ UNCHANGED << users, catalog, clock >>

Next ==
  \/ Tick
  \/ \E email \in Emails, name \in {"Asha"} : Register(name, email)
  \/ \E email \in RequestEmails \ {""}, form \in ProfileForms :
       ProfileUpdate(email, form)
  \/ \E tokenEmail \in RequestEmails \ {""}, form \in ScholarshipForms :
       CreateScholarship(tokenEmail, form)
  \/ \E email \in RequestEmails : CheckEligibility(email)

Spec == Init /\ [][Next]_vars

(***************************************************************************)
(* Properties.                                                             *)
(***************************************************************************)
\* the last handler was check-eligibility and found the user
GateReached == locals.route = "check-eligibility"

\* the last handler was check-eligibility and it ranked the catalog
Ranked == GateReached /\ "scholarships" \in DOMAIN locals

ResultIndices == IF Ranked THEN 1..Len(res.results) ELSE {}

\* the scholarship document a result was computed from
ScholarshipOf(r) ==
  locals.scholarships[CHOOSE k \in 1..Len(locals.scholarships) :
                        locals.scholarships[k].id = r.scholarship.id]

\* the position of a result's scholarship in the sequence the loop ran over
InputPosition(r) ==
  CHOOSE k \in 1..Len(locals.scholarships) :
    locals.scholarships[k].id = r.scholarship.id

AllPassed(r) ==
  \A i \in 1..Len(r.eligibilityChecks) : r.eligibilityChecks[i].passed

HasCheck(r, criterion) ==
  \E i \in 1..Len(r.eligibilityChecks) :
    r.eligibilityChecks[i].criterion = criterion

\* C1: a user whose profile is not complete gets incompleteProfile = true,
\* an empty eligibleScholarships list and no results, whatever the catalog
\* holds, and no scholarship is fetched or evaluated.
C1_IncompleteProfile ==
  (GateReached /\ ~locals.profile.isProfileComplete) =>
    /\ "incompleteProfile" \in DOMAIN res
    /\ res.incompleteProfile = TRUE
    /\ res.eligibleScholarships = <<>>
    /\ "results" \notin DOMAIN res
    /\ "scholarships" \notin DOMAIN locals

C1_Witness ==
  /\ GateReached
  /\ ~locals.profile.isProfileComplete
  /\ "incompleteProfile" \in DOMAIN res
  /\ FindActive(catalog) # <<>>

\* C2: isEligible of a result is true exactly when every emitted check has
\* passed and the deadline status is not Expired.
C2_EligibleIffAllPassed ==
  \A i \in ResultIndices :
    LET r == res.results[i]
    IN  r.isEligible <=> (AllPassed(r) /\ r.deadlineStatus # "Expired")

\* an eligible result next to one whose checks all passed but whose deadline
\* is over
C2_Witness ==
  /\ \E i \in ResultIndices : res.results[i].isEligible
  /\ \E i \in ResultIndices :
       AllPassed(res.results[i]) /\ ~res.results[i].isEligible

\* C3: a scholarship whose deadline exists and is strictly before now yields
\* isEligible = false and deadlineStatus = "Expired"; every other one yields
\* deadlineStatus = "Active".
C3_ExpiredDeadline ==
  \A i \in ResultIndices :
    LET r == res.results[i]
        deadline == ScholarshipOf(r).applicationDeadline
    IN  IF deadline # NoDate /\ DateLess(deadline, locals.now)
        THEN ~r.isEligible /\ r.deadlineStatus = "Expired"
        ELSE r.deadlineStatus = "Active"

\* an expired result whose checks all passed, and a result whose deadline is
\* the very day of the request
C3_Witness ==
  /\ \E i \in ResultIndices :
       /\ DateLess(ScholarshipOf(res.results[i]).applicationDeadline, locals.now)
       /\ AllPassed(res.results[i])
  /\ \E i \in ResultIndices :
       ScholarshipOf(res.results[i]).applicationDeadline = locals.now

\* C4: in the results no ineligible result precedes an eligible one, and
\* among results of equal isEligible matchPercentage does not increase.
C4_RankedOrder ==
  \A i, j \in ResultIndices :
    i < j =>
      LET a == res.results[i]
          b == res.results[j]
      IN  /\ ~(~a.isEligible /\ b.isEligible)
          /\ (a.isEligible = b.isEligible =>
                a.matchPercentage >= b.matchPercentage)

\* the sort moved an eligible result in front of an ineligible one that the
\* loop had produced first, or a better match in front of a worse one
C4_Witness ==
  \E i, j \in ResultIndices :
    /\ i < j
    /\ InputPosition(res.results[i]) > InputPosition(res.results[j])
    /\ res.results[i].isEligible = res.results[j].isEligible
    /\ res.results[i].matchPercentage > res.results[j].matchPercentage

\* C5: the sort is stable: two results of equal isEligible and equal
\* matchPercentage keep the relative order of their scholarships in the input.
C5_StableSort ==
  \A i, j \in ResultIndices :
    (/\ i < j
     /\ res.results[i].isEligible = res.results[j].isEligible
     /\ res.results[i].matchPercentage = res.results[j].matchPercentage)
      => InputPosition(res.results[i]) < InputPosition(res.results[j])

\* two results of equal key, of two different scholarships
C5_Witness ==
  \E i, j \in ResultIndices :
    /\ i < j
    /\ res.results[i].isEligible = res.results[j].isEligible
    /\ res.results[i].matchPercentage = res.results[j].matchPercentage
    /\ res.results[i].scholarship.title # res.results[j].scholarship.title

\* the distance of a whole number m from the fraction n / d, times 2 * d
TwiceDistance(m, n, d) ==
  IF m * d >= n THEN 2 * (m * d - n) ELSE 2 * (n - m * d)

\* C6: matchPercentage is 100 * passed / emitted rounded to the nearest whole
\* number.
C6_MatchPercentage ==
  \A i \in ResultIndices :
    LET r == res.results[i]
        emitted == Len(r.eligibilityChecks)
        passed == Cardinality({k \in 1..emitted : r.eligibilityChecks[k].passed})
    IN  /\ emitted > 0
        /\ TwiceDistance(r.matchPercentage, 100 * passed, emitted) <= emitted

\* a percentage that rounding raised, and one that rounding lowered
C6_Witness ==
  /\ \E i \in ResultIndices :
       LET r == res.results[i]
       IN  r.matchPercentage * Len(r.eligibilityChecks)
             > 100 * PassedCount(r.eligibilityChecks)
  /\ \E i \in ResultIndices :
       LET r == res.results[i]
       IN  r.matchPercentage * Len(r.eligibilityChecks)
             < 100 * PassedCount(r.eligibilityChecks)

\* C8: for Education Level, Field of Study and Category a check of that name
\* is in the trace exactly when the scholarship's set is not empty.
C8_SetChecksIffConstrained ==
  \A i \in ResultIndices :
    LET r == res.results[i]
        criteria == ScholarshipOf(r).eligibilityCriteria
    IN  /\ HasCheck(r, "Education Level") <=> criteria.requiredEducation # <<>>
        /\ HasCheck(r, "Field of Study") <=> criteria.requiredFields # <<>>
        /\ HasCheck(r, "Category") <=> criteria.allowedCategories # <<>>

\* one response with an unconstrained scholarship and a constrained one, and
\* a result where only some of the three sets are empty
C8_Witness ==
  /\ \E i \in ResultIndices :
       LET criteria == ScholarshipOf(res.results[i]).eligibilityCriteria
       IN  /\ criteria.requiredEducation = <<>>
           /\ criteria.requiredFields = <<>>
           /\ criteria.allowedCategories = <<>>
  /\ \E i \in ResultIndices :
       LET criteria == ScholarshipOf(res.results[i]).eligibilityCriteria
       IN  /\ criteria.requiredEducation # <<>>
           /\ criteria.requiredFields = <<>>
           /\ criteria.allowedCategories # <<>>
           /\ HasCheck(res.results[i], "Category")

\* the genders a profile can hold
ProfileGenders == GenderEnum \cup {Undefined}

\* C9: a Gender check is emitted exactly when allowedGenders is not empty and
\* does not hold "All"; when it holds "All" the user's gender does not bear on
\* isEligible.
C9_GenderCheck ==
  \A i \in ResultIndices :
    LET r == res.results[i]
        scholarship == ScholarshipOf(r)
        allowed == scholarship.eligibilityCriteria.allowedGenders
    IN  /\ HasCheck(r, "Gender") <=>
             (allowed # <<>> /\ ~ArrayIncludes(allowed, "All"))
        /\ ArrayIncludes(allowed, "All") =>
             \A g \in ProfileGenders :
               EligibilityResult(scholarship,
                                 [locals.profile EXCEPT !.gender = g],
                                 locals.userAge, locals.userIncome,
                                 locals.userCgpa, locals.now).isEligible
                 = r.isEligible

\* "All" next to a gender that is not the user's, and a real gender check
C9_Witness ==
  /\ \E i \in ResultIndices :
       LET allowed == ScholarshipOf(res.results[i]).eligibilityCriteria.allowedGenders
       IN  /\ ArrayIncludes(allowed, "All")
           /\ Len(allowed) > 1
           /\ ~ArrayIncludes(allowed, locals.profile.gender)
           /\ res.results[i].isEligible
  /\ \E i \in ResultIndices : HasCheck(res.results[i], "Gender")

CriteriaOrder ==
  << "CGPA", "Education Level", "Field of Study", "Family Income", "Gender",
     "Category", "Age" >>

\* C10: the checks of a result are a subsequence of CGPA, Education Level,
\* Field of Study, Family Income, Gender, Category, Age, no name twice.
C10_CheckOrder ==
  \A i \in ResultIndices :
    LET checks == res.results[i].eligibilityChecks
        Place(k) == {p \in 1..Len(CriteriaOrder) :
                       CriteriaOrder[p] = checks[k].criterion}
    IN  /\ \A k \in 1..Len(checks) : Place(k) # {}
        /\ \A k, l \in 1..Len(checks) :
             k < l => \A p \in Place(k), q \in Place(l) : p < q

\* a trace of all seven checks and a trace of the three unconditional ones
C10_Witness ==
  /\ \E i \in ResultIndices : Len(res.results[i].eligibilityChecks) = 7
  /\ \E i \in ResultIndices : Len(res.results[i].eligibilityChecks) = 3

\* the criteria a scholarship constrains: the three range checks always, a
\* set check when its set is not empty, Gender when the set is not empty and
\* does not hold "All"
ConstrainedCriteria(criteria) ==
  {"CGPA", "Family Income", "Age"}
    \cup (IF criteria.requiredEducation # <<>> THEN {"Education Level"} ELSE {})
    \cup (IF criteria.requiredFields # <<>> THEN {"Field of Study"} ELSE {})
    \cup (IF criteria.allowedCategories # <<>> THEN {"Category"} ELSE {})
    \cup (IF criteria.allowedGenders # <<>>
             /\ ~ArrayIncludes(criteria.allowedGenders, "All")
          THEN {"Gender"} ELSE {})

EmittedCriteria(r) ==
  {r.eligibilityChecks[k].criterion : k \in 1..Len(r.eligibilityChecks)}

\* C11: evaluation never short-circuits: the criteria emitted for a
\* scholarship are exactly the criteria it constrains, each once, whether or
\* not an earlier check has failed.
C11_NoShortCircuit ==
  \A i \in ResultIndices :
    LET r == res.results[i]
    IN  /\ EmittedCriteria(r)
             = ConstrainedCriteria(ScholarshipOf(r).eligibilityCriteria)
        /\ Cardinality(EmittedCriteria(r)) = Len(r.eligibilityChecks)

\* the first check of a result has failed and all seven checks are reported,
\* a later one failing as well
C11_Witness ==
  \E i \in ResultIndices :
    LET checks == res.results[i].eligibilityChecks
    IN  /\ Len(checks) = 7
        /\ ~checks[1].passed
        /\ \E k \in 2..7 : ~checks[k].passed
        /\ \E k \in 2..7 : checks[k].passed

\* C12: in a ranking response totalScholarships is the number of candidate
\* scholarships and the length of results, every candidate has exactly one
\* result, and eligibleScholarships is the number of results with
\* isEligible = true.
C12_Totals ==
  Ranked =>
    /\ res.totalScholarships = Len(locals.scholarships)
    /\ res.totalScholarships = Len(res.results)
    /\ \A k \in 1..Len(locals.scholarships) :
         Cardinality({i \in ResultIndices :
                        res.results[i].scholarship.id
                          = locals.scholarships[k].id}) = 1
    /\ res.eligibleScholarships
         = Cardinality({i \in ResultIndices : res.results[i].isEligible})

\* two candidates put in another order by the sort, one eligible and one
\* whose checks all passed but whose deadline is over
C12_Witness ==
  /\ Ranked
  /\ res.totalScholarships = 2
  /\ res.results[1].scholarship.id = locals.scholarships[2].id
  /\ res.eligibleScholarships = 1
  /\ \E i \in ResultIndices :
       res.results[i].matchPercentage = 100 /\ ~res.results[i].isEligible

\* the ids of the catalog's documents whose isActive flag is true
ActiveIds == {catalog[k].id : k \in {j \in 1..Len(catalog) : catalog[j].isActive}}

ResultIds == {res.results[i].scholarship.id : i \in ResultIndices}

\* C13: a scholarship is in the ranking results exactly when its isActive
\* flag is true; an active one whose deadline is over is still in the results
\* (ineligible, Expired) and an inactive one never is.
C13_ActiveOnly ==
  Ranked =>
    /\ ResultIds = ActiveIds
    /\ \A k \in 1..Len(catalog) :
         (/\ catalog[k].isActive
          /\ catalog[k].applicationDeadline # NoDate
          /\ DateLess(catalog[k].applicationDeadline, locals.now))
           => \E i \in ResultIndices :
                /\ res.results[i].scholarship.id = catalog[k].id
                /\ ~res.results[i].isEligible
                /\ res.results[i].deadlineStatus = "Expired"

\* a catalog of an inactive scholarship and an active one past its deadline,
\* ranked: the only result is the expired one
C13_Witness ==
  /\ Ranked
  /\ \E k \in 1..Len(catalog) : ~catalog[k].isActive
  /\ \E k \in 1..Len(catalog) :
       /\ catalog[k].isActive
       /\ DateLess(catalog[k].applicationDeadline, locals.now)
  /\ Len(res.results) = 1
  /\ res.results[1].deadlineStatus = "Expired"

(***************************************************************************)
(* parseIncome on its own: the income texts a profile form can carry,      *)
(* written from their parts so that a property can name the number each   *)
(* part stands for.  v is the value of a numeral in twentieths.            *)
(***************************************************************************)
Numeral(text, v) == [text |-> text, v |-> v]

\* numerals that stay inside the integers of the checker under a unit
SmallNumerals ==
  { Numeral(<<"2">>, 2 * Scale), Numeral(<<"5">>, 5 * Scale),
    Numeral(<<"2", ".", "5">>, 2 * Scale + Scale \div 2) }

BigNumerals ==
  { Numeral(<<"1", "0">>, 10 * Scale),
    Numeral(<<"3", "0", "0", ",", "0", "0", "0">>, 300000 * Scale),
    Numeral(<<"5", "0", "0", "0", "0", "0">>, 500000 * Scale) }

Numerals == SmallNumerals \cup BigNumerals

NoNumeral == Numeral(<<>>, 0)

UnitWord(text, kind) == [text |-> text, kind |-> kind]

NoUnit == UnitWord(<<>>, "none")

LakhWords ==
  { UnitWord(<<" ", "l", "a", "k", "h">>, "lakh"),
    UnitWord(<<"L", "a", "k", "h", "s">>, "lakh"),
    UnitWord(<<" ", "L", "A", "K", "H">>, "lakh"),
    UnitWord(<<" ", "c", "r", "o", "r", "e", " ", "l", "a", "k", "h">>, "lakh") }

CroreWords ==
  { UnitWord(<<" ", "c", "r", "o", "r", "e">>, "crore"),
    UnitWord(<<"C", "r", "o", "r", "e", "s">>, "crore") }

OtherWords == { UnitWord(<<" ", "p", "a">>, "other") }

UnitWords == LakhWords \cup CroreWords \cup OtherWords

Prefixes == { <<>>, <<Rupee>>, <<Rupee, " ">> }

Hyphens == { <<"-">>, <<" ", "-", " ">> }

IncomeInput(shape, text, a, b, unit) ==
  [ shape |-> shape, incomeString |-> text, a |-> a.v, b |-> b.v,
    unit |-> unit.kind ]

\* one numeral, with or without a unit word
SingleInputs ==
  { IncomeInput("single", p \o a.text \o u.text, a, NoNumeral, u) :
      p \in Prefixes, a \in SmallNumerals, u \in UnitWords \cup {NoUnit} }
  \cup { IncomeInput("single", p \o a.text, a, NoNumeral, NoUnit) :
           p \in Prefixes, a \in BigNumerals }

\* numeral, hyphen, numeral, with or without a unit word
RangeInputs ==
  { IncomeInput("range", a.text \o h \o b.text \o u.text, a, b, u) :
      a \in SmallNumerals, b \in SmallNumerals, h \in Hyphens,
      u \in UnitWords \cup {NoUnit} }
  \cup { IncomeInput("range", p \o a.text \o <<"-">> \o b.text, a, b, NoUnit) :
           p \in Prefixes, a \in Numerals, b \in BigNumerals }

\* a hyphen with a numeral on one side only, or two hyphens in a row
BrokenRangeInputs ==
  { IncomeInput("trailing", a.text \o <<"-">> \o u.text, a, NoNumeral, u) :
      a \in SmallNumerals, u \in UnitWords \cup {NoUnit} }
  \cup { IncomeInput("leading", <<"-">> \o a.text \o u.text, a, NoNumeral, u) :
           a \in SmallNumerals, u \in UnitWords \cup {NoUnit} }
  \cup { IncomeInput("repeated", a.text \o <<"-", "-">> \o b.text, a, b, NoUnit) :
           a \in SmallNumerals, b \in SmallNumerals }

\* no digit at all: nothing, the empty text, a hyphen, a word
DigitlessInputs ==
  { IncomeInput("absent", NoText, NoNumeral, NoNumeral, NoUnit),
    IncomeInput("empty", <<>>, NoNumeral, NoNumeral, NoUnit),
    IncomeInput("blank", <<" ">>, NoNumeral, NoNumeral, NoUnit),
    IncomeInput("hyphen", <<"-">>, NoNumeral, NoNumeral, NoUnit) }
  \cup { IncomeInput("word", u.text, NoNumeral, NoNumeral, u) :
           u \in UnitWords }

IncomeInputs ==
  SingleInputs \cup RangeInputs \cup BrokenRangeInputs \cup DigitlessInputs

\* the state before the call: the argument chosen, nothing returned yet
IncomeInit ==
  /\ users = << >>
  /\ catalog = << >>
  /\ clock = 0
  /\ res = Reply("none", 0)
  /\ locals \in { [route |-> "parseIncome", input |-> x] : x \in IncomeInputs }

\* the call: res takes the value returned
ParseIncomeCall ==
  /\ res.route = "none"
  /\ res' = [ route |-> "parseIncome", status |-> 0,
              value |-> parseIncome(locals.input.incomeString) ]
  /\ UNCHANGED << users, catalog, clock, locals >>

IncomeNext == ParseIncomeCall

SpecIncome == IncomeInit /\ [][IncomeNext]_vars

\* parseIncome has returned
IncomeReturned == res.route = "parseIncome"

\* a Number that is not NaN and not negative, in twentieths
Twentieths(n) == n.w * Scale + n.u

C15_UnitMultiplier ==
  (IncomeReturned /\ locals.input.shape = "single") =>
    /\ locals.input.unit = "lakh" =>
         /\ ~res.value.nan
         /\ Twentieths(res.value) = locals.input.a * 100000
    /\ locals.input.unit = "crore" =>
         /\ ~res.value.nan
         /\ Twentieths(res.value) = locals.input.a * 10000000

\* "5 lakh" in capitals has returned 500000
C15_Witness ==
  /\ IncomeReturned
  /\ locals.input.shape = "single"
  /\ locals.input.incomeString = <<"5", " ", "L", "A", "K", "H">>
  /\ res.value = Num(500000, 0)

\* C16: parseIncome returns a finite number for every input text, the empty
\* text, a unit word without digits and a text with a leading, trailing or
\* repeated hyphen included.
C16_AlwaysFinite == IncomeReturned => ~res.value.nan

\* a text in which no number can be read: absent, empty or without a digit
Unparsable(text) ==
  Falsy(text) \/ \A k \in 1..Len(text) : ~IsDigit(text[k])

\* C17: income text and CGPA text that are unparsable or absent each
\* normalize to the number 0, and the ranking still returns a result for
\* every candidate scholarship.
C17_UnparsableIsZero ==
  Ranked =>
    /\ Unparsable(locals.profile.cgpa) => locals.userCgpa = Num(0, 0)
    /\ Unparsable(locals.profile.familyIncome) => locals.userIncome = Num(0, 0)
    /\ Len(res.results) = Len(locals.scholarships)

(***************************************************************************)
(* calculateAge on its own: dates of birth and days on which it is called. *)
(* Months are those of getMonth, 0 to 11.                                  *)
(***************************************************************************)
BirthYears == {2004, 2005}

\* month and day pairs around the days of the calls, the leap day included
MonthDays ==
  { <<0, 1>>, <<1, 28>>, <<1, 29>>, <<2, 1>>, <<2, 13>>, <<2, 14>>,
    <<2, 15>>, <<5, 15>>, <<11, 31>> }

BirthDates ==
  {NoDate} \cup
  { d \in { Date(y, md[1], md[2]) : y \in BirthYears, md \in MonthDays } :
      d.date <= DaysInMonth(d.year, d.month) }

CallDates ==
  { StartDate, NextDay(StartDate), Date(2025, 2, 13), Date(2025, 1, 28),
    Date(2024, 1, 29), Date(2024, 11, 31), Date(2025, 0, 1),
    Date(2025, 5, 15) }

AgeInit ==
  /\ users = << >>
  /\ catalog = << >>
  /\ clock = 0
  /\ res = Reply("none", 0)
  /\ locals \in { [route |-> "calculateAge", dateOfBirth |-> d, today |-> t] :
                    d \in BirthDates, t \in CallDates }

\* the call: res takes the value returned
CalculateAgeCall ==
  /\ res.route = "none"
  /\ res' = [ route |-> "calculateAge", status |-> 0,
              value |-> calculateAge(locals.dateOfBirth, locals.today) ]
  /\ UNCHANGED << users, catalog, clock, locals >>

AgeNext == CalculateAgeCall

SpecAge == AgeInit /\ [][AgeNext]_vars

AgeReturned == res.route = "calculateAge"

\* month and day as one number, to compare two days of a year
DayOfYearKey(d) == d.month * 100 + d.date

\* C18: calculateAge returns 0 for an absent date of birth; otherwise the
\* current year minus the birth year, less one exactly when the current
\* month and day come before the birth month and day: a birth date 20 years
\* before today gives 20, a birthday that is tomorrow gives 19.
C18_Age ==
  AgeReturned =>
    LET dob == locals.dateOfBirth
        today == locals.today
        tomorrow == NextDay(today)
    IN  IF dob = NoDate THEN res.value = 0
        ELSE
          /\ res.value = (today.year - dob.year)
                           - (IF DayOfYearKey(today) < DayOfYearKey(dob)
                              THEN 1 ELSE 0)
          /\ dob = [today EXCEPT !.year = @ - 20] => res.value = 20
          /\ (tomorrow.year = today.year
              /\ dob = [tomorrow EXCEPT !.year = @ - 20]) => res.value = 19

\* called on the eve of a twentieth birthday that falls in the next month
C18_Witness ==
  /\ AgeReturned
  /\ locals.today = Date(2025, 1, 28)
  /\ locals.dateOfBirth = Date(2005, 2, 1)
  /\ res.value = 19

\* the last request was a check-eligibility of a user with a complete profile
CompleteProfileChecked ==
  /\ GateReached
  /\ "profile" \in DOMAIN locals
  /\ locals.profile.isProfileComplete

\* the positions of the active documents the loop body cannot evaluate
MalformedActive == {k \in 1..Len(catalog) : catalog[k].isActive /\ Throws(catalog[k])}

\* C19: a malformed scholarship record does not abort the ranking run: the
\* results are still returned for every other candidate scholarship.
C19_MalformedSkipped ==
  (CompleteProfileChecked /\ MalformedActive # {}) =>
    /\ "results" \in DOMAIN res
    /\ \A k \in 1..Len(catalog) :
         (catalog[k].isActive /\ ~Throws(catalog[k])) =>
           \E i \in 1..Len(res.results) :
             res.results[i].scholarship.id = catalog[k].id

\* C20: a check-eligibility request leaves the user store and the scholarship
\* catalog as they were, on the incomplete-profile path and on the ranking
\* path alike.  A step that answers on the check-eligibility route without
\* the clock moving is a step of the handler.
C20_StoresUnchanged ==
  [][(res'.route = "check-eligibility" /\ clock' = clock)
       => (users' = users /\ catalog' = catalog)]_vars

\* the handler has ranked a catalog that is not empty for a stored user
C20_Witness ==
  /\ Ranked
  /\ locals.email \in DOMAIN users
  /\ Len(res.results) > 0
  /\ Len(catalog) > 0

Ravi == "ravi@example.com"

RequestIds == {1, 2}

\* the profile stored by one update of a new user
StoredUser(name, form) ==
  [name |-> name, profile |-> UpdatedProfile(DefaultProfile, form)]

ConcurrentStores ==
  { [e \in {Asha, Ravi} |-> IF e = Asha THEN StoredUser("Asha", a)
                                        ELSE StoredUser("Ravi", b)] :
      a \in {FormAsha, FormPhoneOnly}, b \in {FormRavi, FormGarbled} }

\* the document createScholarship saves
Document(id, form) ==
  [ id |-> id, title |-> form.title, isActive |-> form.isActive,
    applicationDeadline |-> form.applicationDeadline,
    eligibilityCriteria |-> form.eligibilityCriteria ]

ConcurrentCatalogs ==
  { << >>,
    << Document(1, FormMerit), Document(2, FormWomen) >>,
    << Document(1, FormNeed), Document(2, FormOpen) >>,
    << Document(1, FormInactive), Document(2, FormNeed) >>,
    << Document(1, FormOpen), Document(2, FormMalformed) >> }

ConcurrentEmails == {Asha, Ravi, "", "nobody@example.com"}

\* the block-scoped locals of one invocation before it has read anything
IdleRequest ==
  [ pc |-> "idle", email |-> "", profile |-> DefaultProfile, userAge |-> 0,
    userIncome |-> Num(0, 0), userCgpa |-> Num(0, 0) ]

ConcurrentInit ==
  /\ users \in ConcurrentStores
  /\ catalog \in ConcurrentCatalogs
  /\ clock \in 0..MaxClock
  /\ locals = [ route |-> "concurrent", req |-> [r \in RequestIds |-> IdleRequest] ]
  /\ res = [ route |-> "concurrent", status |-> 0,
             out |-> [r \in RequestIds |-> Reply("none", 0)] ]

\* the locals kept in one place for all invocations: a request reads those of
\* whichever invocation is waiting for the catalog
SlotShared(r) ==
  CHOOSE q \in RequestIds : locals.req[q].pc = "findScholarships"

\* the invocation whose locals request r reads: its own
Slot(r) == r

Respond(r, body) ==
  /\ res' = [res EXCEPT !.out[r] = body]
  /\ locals' = [locals EXCEPT !.req[r].pc = "done"]

\* the request arrives: the email test, then await User.findOne
Receive(r, email) ==
  /\ locals.req[r].pc = "idle"
  /\ UNCHANGED << users, catalog, clock >>
  /\ IF email = ""
     THEN Respond(r, Reply("check-eligibility", 400))
     ELSE /\ locals' = [locals EXCEPT !.req[r].pc = "findUser",
                                      !.req[r].email = email]
          /\ UNCHANGED res

\* User.findOne resolves: the gate, the normalisation, then
\* await Scholarship.find
UserFound(r) ==
  /\ locals.req[r].pc = "findUser"
  /\ UNCHANGED << users, catalog, clock >>
  /\ LET email == locals.req[r].email
     IN  IF email \notin DOMAIN users
         THEN Respond(r, Reply("check-eligibility", 404))
         ELSE IF ProfileIncomplete(users[email])
         THEN Respond(r, [ route |-> "check-eligibility", status |-> 200,
                           success |-> TRUE, eligibleScholarships |-> <<>>,
                           incompleteProfile |-> TRUE ])
         ELSE LET profile == users[email].profile
              IN  /\ locals' =
                       [locals EXCEPT
                          !.req[r] =
                            [ pc |-> "findScholarships", email |-> email,
                              profile |-> profile,
                              userAge |-> calculateAge(profile.dateOfBirth, Today),
                              userIncome |-> parseIncome(profile.familyIncome),
                              userCgpa |-> OrZero(parseFloat(profile.cgpa)) ]]
                  /\ UNCHANGED res

\* Scholarship.find resolves: the loop, the sort and the response
ScholarshipsFound(r) ==
  /\ locals.req[r].pc = "findScholarships"
  /\ UNCHANGED << users, catalog, clock >>
  /\ LET mine == locals.req[Slot(r)]
         scholarships == FindActive(catalog)
         eligibilityResults ==
           SortResults(EvaluateAll(scholarships, mine.profile, mine.userAge,
                                   mine.userIncome, mine.userCgpa, Today))
     IN  IF \E k \in 1..Len(scholarships) : Throws(scholarships[k])
         THEN Respond(r, Reply("check-eligibility", 500))
         ELSE Respond(r, [ route |-> "check-eligibility", status |-> 200,
                           success |-> TRUE,
                           totalScholarships |-> Len(scholarships),
                           eligibleScholarships |->
                             EligibleCount(eligibilityResults),
                           results |-> eligibilityResults,
                           userProfile |-> [ cgpa |-> mine.userCgpa,
                                             income |-> mine.userIncome,
                                             age |-> mine.userAge ] ])

ConcurrentNext ==
  \/ \E r \in RequestIds, email \in ConcurrentEmails : Receive(r, email)
  \/ \E r \in RequestIds : UserFound(r)
  \/ \E r \in RequestIds : ScholarshipsFound(r)

SpecConcurrent == ConcurrentInit /\ [][ConcurrentNext]_vars

\* C22: for every interleaving of two check-eligibility requests over
\* unchanged stores, the response of each request is the response the handler
\* gives that request when it runs alone.
C22_Independent ==
  \A r \in RequestIds :
    locals.req[r].pc = "done" =>
      res.out[r] = HandlerOutcome(locals.req[r].email).res

\* both requests, for two users, have been answered with rankings that differ
C22_Witness ==
  /\ locals.req[1].pc = "done"
  /\ locals.req[2].pc = "done"
  /\ locals.req[1].email # locals.req[2].email
  /\ "results" \in DOMAIN res.out[1]
  /\ "results" \in DOMAIN res.out[2]
  /\ res.out[1].results # res.out[2].results

\* the number of checks of a result that carry a criterion
CheckCount(r, criterion) ==
  Cardinality({k \in 1..Len(r.eligibilityChecks) :
                 r.eligibilityChecks[k].criterion = criterion})

\* the passed flag of the check of a result that carries a criterion
PassedOf(r, criterion) ==
  r.eligibilityChecks[CHOOSE k \in 1..Len(r.eligibilityChecks) :
                        r.eligibilityChecks[k].criterion = criterion].passed

\* lo <= v <= hi on Numbers: a NaN is in no range
InRange(v, lo, hi) ==
  /\ ~v.nan
  /\ \/ NumLess(lo, v)
     \/ (lo.sgn = v.sgn /\ lo.w = v.w /\ lo.u = v.u)
     \/ (lo.w = 0 /\ lo.u = 0 /\ v.w = 0 /\ v.u = 0)
  /\ \/ NumLess(v, hi)
     \/ (hi.sgn = v.sgn /\ hi.w = v.w /\ hi.u = v.u)
     \/ (hi.w = 0 /\ hi.u = 0 /\ v.w = 0 /\ v.u = 0)

\* C23: each of CGPA, Family Income and Age has exactly one check in every
\* result, and the check has passed exactly when the user's normalized value
\* lies in the inclusive range of the scholarship; a value that is not a
\* number lies in no range and does not pass.
C23_RangeChecks ==
  \A i \in ResultIndices :
    LET r == res.results[i]
        criteria == ScholarshipOf(r).eligibilityCriteria
    IN  /\ CheckCount(r, "CGPA") = 1
        /\ CheckCount(r, "Family Income") = 1
        /\ CheckCount(r, "Age") = 1
        /\ PassedOf(r, "CGPA")
             <=> InRange(locals.userCgpa, criteria.minCgpa, criteria.maxCgpa)
        /\ PassedOf(r, "Family Income")
             <=> InRange(locals.userIncome, criteria.minFamilyIncome,
                         criteria.maxFamilyIncome)
        /\ PassedOf(r, "Age")
             <=> (criteria.minAge <= locals.userAge
                  /\ locals.userAge <= criteria.maxAge)

\* the name of the profile field a set criterion reads, and of its set
SetCriteria ==
  { [criterion |-> "Education Level", field |-> "currentEducation",
     set |-> "requiredEducation"],
    [criterion |-> "Field of Study", field |-> "fieldOfStudy",
     set |-> "requiredFields"],
    [criterion |-> "Gender", field |-> "gender", set |-> "allowedGenders"],
    [criterion |-> "Category", field |-> "category",
     set |-> "allowedCategories"] }

\* C24: when a set criterion is constrained, its check has passed exactly
\* when the user's profile value is one of the elements of the allowed set; a
\* profile value that is unset does not pass a constrained check.
C24_SetMembership ==
  \A i \in ResultIndices : \A c \in SetCriteria :
    LET r == res.results[i]
        allowed == ScholarshipOf(r).eligibilityCriteria[c.set]
        value == locals.profile[c.field]
    IN  HasCheck(r, c.criterion) =>
          /\ PassedOf(r, c.criterion)
               <=> (\E k \in 1..Len(allowed) : allowed[k] = value)
          /\ value = Undefined => ~PassedOf(r, c.criterion)

\* a user without a field of study ranked against a scholarship that asks
\* for one, in a result whose education check has passed
C24_Witness ==
  /\ Ranked
  /\ locals.profile.fieldOfStudy = Undefined
  /\ \E i \in ResultIndices :
       /\ HasCheck(res.results[i], "Field of Study")
       /\ ~PassedOf(res.results[i], "Field of Study")
       /\ HasCheck(res.results[i], "Education Level")
       /\ PassedOf(res.results[i], "Education Level")

(***************************************************************************)
(* routes/eligibility.js: the second copy of the ranking handler, with its *)
(* own calculateAge and parseIncome, translated from that file.            *)
(***************************************************************************)
routerCalculateAge(dateOfBirth, today) ==
  IF dateOfBirth = NoDate THEN 0
  ELSE LET years == today.year - dateOfBirth.year
           monthDiff == today.month - dateOfBirth.month
       IN  years - (IF monthDiff < 0
                       \/ (monthDiff = 0 /\ today.date < dateOfBirth.date)
                    THEN 1 ELSE 0)

routerParseIncome(incomeString) ==
  IF Falsy(incomeString) THEN Num(0, 0)
  ELSE
    LET cleanIncome == SelectSeq(incomeString, NotMoneyNoise)
        range == SplitHyphen(cleanIncome)
        num == parseFloat(SelectSeq(cleanIncome, IsDigitOrDot))
    IN  IF includes(cleanIncome, <<"-">>)
        THEN NumHalf(NumAdd(parseFloat(range[1]), parseFloat(range[2])))
        ELSE IF includes(toLowerCase(cleanIncome), <<"l", "a", "k", "h">>)
        THEN NumTimes(num, Lakh)
        ELSE IF includes(toLowerCase(cleanIncome), <<"c", "r", "o", "r", "e">>)
        THEN NumTimes(num, Crore)
        ELSE OrZero(parseFloat(cleanIncome))

\* the gate with !user.profile alone: only a profile never written is refused
RouterGateFlagOnly(user) == user.profile = DefaultProfile

\* !user.profile || !user.profile.isProfileComplete: the profile object is
\* always there, the schema nests it
RouterProfileIncomplete(user) == ~user.profile.isProfileComplete

\* eligibilityChecks.push of one statement: fails sets isEligible = false,
\* emitted tells whether the statement pushes at all
RouterPush(st, criterion, fails, emitted) ==
  IF fails
  THEN [ isEligible |-> FALSE,
         eligibilityChecks |->
           st.eligibilityChecks \o << [criterion |-> criterion, passed |-> FALSE] >> ]
  ELSE IF emitted
  THEN [ isEligible |-> st.isEligible,
         eligibilityChecks |->
           st.eligibilityChecks \o << [criterion |-> criterion, passed |-> TRUE] >> ]
  ELSE st

\* one iteration of for (let scholarship of allScholarships)
RouterLoopBody(scholarship, profile, userAge, userIncome, userCgpa, now) ==
  LET criteria == scholarship.eligibilityCriteria
      s0 == [isEligible |-> TRUE, eligibilityChecks |-> <<>>]
      s1 == RouterPush(s0, "CGPA",
                       NumLess(userCgpa, criteria.minCgpa)
                         \/ NumGreater(userCgpa, criteria.maxCgpa),
                       TRUE)
      s2 == RouterPush(s1, "Education Level",
                       Len(criteria.requiredEducation) > 0
                         /\ ~ArrayIncludes(criteria.requiredEducation,
                                           profile.currentEducation),
                       Len(criteria.requiredEducation) > 0)
      s3 == RouterPush(s2, "Field of Study",
                       Len(criteria.requiredFields) > 0
                         /\ ~ArrayIncludes(criteria.requiredFields,
                                           profile.fieldOfStudy),
                       Len(criteria.requiredFields) > 0)
      s4 == RouterPush(s3, "Family Income",
                       NumGreater(userIncome, criteria.maxFamilyIncome)
                         \/ NumLess(userIncome, criteria.minFamilyIncome),
                       TRUE)
      s5 == RouterPush(s4, "Gender",
                       Len(criteria.allowedGenders) > 0
                         /\ ~ArrayIncludes(criteria.allowedGenders, "All")
                         /\ ~ArrayIncludes(criteria.allowedGenders, profile.gender),
                       Len(criteria.allowedGenders) > 0
                         /\ ~ArrayIncludes(criteria.allowedGenders, "All"))
      s6 == RouterPush(s5, "Category",
                       Len(criteria.allowedCategories) > 0
                         /\ ~ArrayIncludes(criteria.allowedCategories,
                                           profile.category),
                       Len(criteria.allowedCategories) > 0)
      s7 == RouterPush(s6, "Age",
                       userAge < criteria.minAge \/ userAge > criteria.maxAge,
                       TRUE)
      expired == scholarship.applicationDeadline # NoDate
                   /\ DateLess(scholarship.applicationDeadline, now)
      passedCount == Len(SelectSeq(s7.eligibilityChecks, LAMBDA c : c.passed))
  IN  [ scholarship |-> [id |-> scholarship.id, title |-> scholarship.title,
                         applicationDeadline |-> scholarship.applicationDeadline],
        isEligible |-> s7.isEligible /\ ~expired,
        deadlineStatus |-> IF expired THEN "Expired" ELSE "Active",
        eligibilityChecks |-> s7.eligibilityChecks,
        matchPercentage |->
          MathRoundPercent(passedCount, Len(s7.eligibilityChecks)) ]

RouterComparator(a, b) ==
  IF a.isEligible /\ ~b.isEligible THEN 0 - 1
  ELSE IF ~a.isEligible /\ b.isEligible THEN 1
  ELSE b.matchPercentage - a.matchPercentage

\* the stable sort of Array.prototype.sort under RouterComparator
RECURSIVE RouterInsert(_, _)
RouterInsert(sorted, x) ==
  IF sorted = <<>> THEN << x >>
  ELSE IF RouterComparator(Head(sorted), x) > 0 THEN << x >> \o sorted
  ELSE << Head(sorted) >> \o RouterInsert(Tail(sorted), x)

RECURSIVE RouterSort(_)
RouterSort(results) ==
  IF results = <<>> THEN <<>>
  ELSE RouterInsert(RouterSort(SubSeq(results, 1, Len(results) - 1)),
                    results[Len(results)])

\* the response of POST /check-eligibility of the router
RouterOutcome(email) ==
  IF email = "" THEN Reply("check-eligibility", 400)
  ELSE IF email \notin DOMAIN users THEN Reply("check-eligibility", 404)
  ELSE IF RouterProfileIncomplete(users[email])
  THEN [ route |-> "check-eligibility", status |-> 200, success |-> TRUE,
         eligibleScholarships |-> <<>>, incompleteProfile |-> TRUE ]
  ELSE
    LET profile == users[email].profile
        userAge == routerCalculateAge(profile.dateOfBirth, Today)
        userIncome == routerParseIncome(profile.familyIncome)
        userCgpa == OrZero(parseFloat(profile.cgpa))
        allScholarships == SelectSeq(catalog, LAMBDA d : d.isActive)
        eligibilityResults ==
          RouterSort([k \in 1..Len(allScholarships) |->
                        RouterLoopBody(allScholarships[k], profile, userAge,
                                       userIncome, userCgpa, Today)])
    IN  IF \E k \in 1..Len(allScholarships) : Throws(allScholarships[k])
        THEN Reply("check-eligibility", 500)
        ELSE [ route |-> "check-eligibility", status |-> 200,
               success |-> TRUE,
               totalScholarships |-> Len(allScholarships),
               eligibleScholarships |->
                 Len(SelectSeq(eligibilityResults, LAMBDA r : r.isEligible)),
               results |-> eligibilityResults,
               userProfile |-> [ cgpa |-> userCgpa, income |-> userIncome,
                                 age |-> userAge ] ]

(***************************************************************************)
(* The same request given to the two handlers over the same stores.  The   *)
(* router's schema does not require a deadline, so the catalogs hold a     *)
(* document without one as well.                                           *)
(***************************************************************************)
EquivalenceStores ==
  { [e \in {Asha, Ravi} |-> IF e = Asha THEN StoredUser("Asha", a)
                                        ELSE StoredUser("Ravi", b)] :
      a \in {FormAsha, FormPhoneOnly, FormGarbled},
      b \in {FormRavi, FormGarbled, EmptyForm} }

EquivalenceForms ==
  { FormOpen, FormMerit, FormWomen, FormNeed, FormInactive, FormNoDeadline,
    FormMalformed }

EquivalenceCatalogs ==
  { << >> } \cup
  { << Document(1, f), Document(2, g) >> :
      f \in EquivalenceForms, g \in {FormMerit, FormWomen, FormNoDeadline} }

EquivalenceInit ==
  /\ users \in EquivalenceStores
  /\ catalog \in EquivalenceCatalogs
  /\ clock \in 0..MaxClock
  /\ res = Reply("none", 0)
  /\ locals = NoLocals

\* one request answered by server.js and by routes/eligibility.js
BothHandlers(email) ==
  /\ locals.route = "none"
  /\ locals' = [route |-> "both", email |-> email]
  /\ res' = [ route |-> "both", status |-> 0,
              server |-> HandlerOutcome(email).res,
              router |-> RouterOutcome(email) ]
  /\ UNCHANGED << users, catalog, clock >>

EquivalenceNext == \E email \in ConcurrentEmails : BothHandlers(email)

SpecEquivalence == EquivalenceInit /\ [][EquivalenceNext]_vars

\* C25: the handler of server.js and the handler of routes/eligibility.js
\* return the same body for every user store, catalog and request: the
\* incompleteProfile outcome, the results in their order with their checks,
\* isEligible, deadlineStatus and matchPercentage, and the totals.
C25_HandlersEquivalent ==
  res.route = "both" =>
    /\ res.server.status = res.router.status
    /\ DOMAIN res.server = DOMAIN res.router
    /\ res.server = res.router

\* the two handlers have ranked a user whose income is not a number against a
\* scholarship without a deadline and one whose deadline is over
C25_Witness ==
  /\ res.route = "both"
  /\ "results" \in DOMAIN res.router
  /\ Len(res.router.results) = 2
  /\ res.router.userProfile.income.nan
  /\ \E i \in 1..2 : res.router.results[i].scholarship.applicationDeadline = NoDate
  /\ \E i \in 1..2 : res.router.results[i].deadlineStatus = "Expired"

\* the last handler was a profile update that was saved
ProfileSaved == locals.route = "profile/update"

\* the number of the twelve required fields of a request that are not blank,
\* counted field by field
NonBlankFields(form) ==
  LET Word(x) == IF x \in {Undefined, "", " "} THEN 0 ELSE 1
      Text(s) == IF s = NoText \/ SelectSeq(s, LAMBDA c : c # " ") = <<>>
                 THEN 0 ELSE 1
  IN  Word(form.fullName) + Word(form.phone)
        + (IF form.dateOfBirth = NoDate THEN 0 ELSE 1)
        + Word(form.gender) + Word(form.category)
        + Word(form.currentEducation) + Word(form.fieldOfStudy)
        + Word(form.institution) + Text(form.cgpa) + Text(form.familyIncome)
        + Word(form.parentOccupation) + Word(form.careerGoals)

\* C26: a profile update stores as profileCompletionPercentage the whole
\* number nearest to 100 * filled / 12, halves up, filled being the number of
\* the 12 required fields of the request that are not blank; that number is
\* in 0..100 and isProfileComplete is true exactly when it is at least 70.
C26_Completion ==
  ProfileSaved =>
    LET stored == users[locals.email].profile
        filled == NonBlankFields(locals.form)
        p == stored.profileCompletionPercentage
    IN  /\ p \in 0..100
        /\ 2 * 12 * p - 12 <= 2 * 100 * filled
        /\ 2 * 100 * filled < 2 * 12 * p + 12
        /\ stored.isProfileComplete <=> p >= 70

\* a form of one field saved over a stored profile that has all twelve
C26_Witness ==
  /\ ProfileSaved
  /\ NonBlankFields(locals.form) = 1
  /\ users[locals.email].profile.careerGoals # Undefined
  /\ users[locals.email].profile.dateOfBirth # NoDate
  /\ ~users[locals.email].profile.isProfileComplete

\* C27: after any sequence of profile updates the stored isProfileComplete
\* describes the stored profile: it is true exactly when at least 70% of the
\* 12 required fields are filled in the profile as stored, fields kept from
\* earlier updates included.
C27_StoredProfileConsistent ==
  \A e \in DOMAIN users :
    users[e].profile.isProfileComplete
      <=> 100 * NonBlankFields(users[e].profile) >= 70 * 12

\* C28: every result of a ranking has between 3 and 7 checks, CGPA, Family
\* Income and Age among them, so the denominator of matchPercentage is not
\* zero and matchPercentage is a whole number in 0..100.
C28_CheckCount ==
  \A i \in ResultIndices :
    LET r == res.results[i]
    IN  /\ Len(r.eligibilityChecks) \in 3..7
        /\ HasCheck(r, "CGPA")
        /\ HasCheck(r, "Family Income")
        /\ HasCheck(r, "Age")
        /\ r.matchPercentage \in 0..100

\* one ranking with a result of three checks and 100 and a result of seven
\* checks, four of them passed
C28_Witness ==
  /\ \E i \in ResultIndices :
       /\ Len(res.results[i].eligibilityChecks) = 3
       /\ res.results[i].matchPercentage = 100
  /\ \E i \in ResultIndices :
       /\ Len(res.results[i].eligibilityChecks) = 7
       /\ res.results[i].matchPercentage = 57

\* C29: an eligible result has matchPercentage 100, a result with
\* matchPercentage 100 and an Active deadline is eligible, and so no result of
\* the run has a higher matchPercentage than an eligible one.
C29_EligibleIsFullMatch ==
  \A i \in ResultIndices :
    LET r == res.results[i]
    IN  /\ r.isEligible => r.matchPercentage = 100
        /\ (r.matchPercentage = 100 /\ r.deadlineStatus = "Active")
             => r.isEligible
        /\ r.isEligible =>
             \A j \in ResultIndices :
               res.results[j].matchPercentage <= r.matchPercentage

\* an eligible result of three checks ranked ahead of a result that is Active
\* and short of 100
C29_Witness ==
  /\ Ranked
  /\ Len(res.results) = 2
  /\ res.results[1].isEligible
  /\ Len(res.results[1].eligibilityChecks) = 3
  /\ res.results[2].deadlineStatus = "Active"
  /\ res.results[2].matchPercentage < 100

(***************************************************************************)
(* Dispatch.  Express keeps the routes and middleware of app in the order  *)
(* of registration and hands a request to the first layer whose method and *)
(* path match; a handler that answers without calling next() ends the      *)
(* dispatch.  Paths are sequences of segments, a segment that begins with  *)
(* a colon in a pattern matches any one segment.  The authentication       *)
(* middleware of a route is given a valid token and calls next().          *)
(***************************************************************************)
Layer(line, method, pattern) ==
  [line |-> line, method |-> method, pattern |-> pattern]

\* the pattern of app.use(fn): every path
AnyPath == << "*" >>

Routes ==
  << Layer(330, "GET", <<"api", "health">>),
     Layer(349, "GET", <<"api", "test-auth">>),
     Layer(362, "POST", <<"api", "scholarships">>),
     Layer(363, "GET", <<"api", "scholarships">>),
     Layer(364, "GET", <<"api", "scholarships", ":id">>),
     Layer(365, "PUT", <<"api", "scholarships", ":id">>),
     Layer(366, "DELETE", <<"api", "scholarships", ":id">>),
     Layer(369, "POST", <<"register">>),
     Layer(398, "POST", <<"login">>),
     Layer(440, "POST", <<"api", "admin", "login">>),
     Layer(483, "GET", <<"logout">>),
     Layer(495, "GET", <<"api", "profile", ":email">>),
     Layer(519, "POST", <<"api", "profile", "update">>),
     Layer(603, "GET", <<"api", "scholarships", "active">>),
     Layer(621, "POST", <<"api", "check-eligibility">>),
     Layer(842, "POST", <<"api", "feedback">>),
     Layer(896, "GET", <<"api", "admin", "feedback">>),
     Layer(929, "GET", <<"api", "admin", "feedback-stats">>),
     Layer(985, "GET", <<"api", "admin", "scholarship-stats">>),
     Layer(1013, "GET", <<"api", "admin", "profile-stats">>),
     Layer(1053, "ERROR", AnyPath),
     Layer(1063, "USE", AnyPath),
     Layer(1069, "GET", <<"api", "users">>) >>

Methods == {"GET", "POST", "PUT", "DELETE"}

IsParam(segment) == segment \in {":id", ":email"}

\* the pattern with each parameter given a value
Concrete(pattern, value) ==
  [k \in 1..Len(pattern) |-> IF IsParam(pattern[k]) THEN value ELSE pattern[k]]

\* the paths requested: every registered path, with parameters given an
\* identifier or the word of a sibling route, and a path nobody registered
RequestPaths ==
  { Concrete(Routes[k].pattern, v) :
      k \in {j \in 1..Len(Routes) : Routes[j].pattern # AnyPath},
      v \in {"64fa01", "active", "update"} }
  \cup { <<"api", "debug", "users">>, <<"api">> }

PathMatches(pattern, path) ==
  /\ Len(pattern) = Len(path)
  /\ \A k \in 1..Len(pattern) : IsParam(pattern[k]) \/ pattern[k] = path[k]

\* a layer takes a request: app.use(fn) takes all, the error middleware none
LayerMatches(layer, method, path) ==
  \/ layer.method = "USE"
  \/ layer.method = method /\ PathMatches(layer.pattern, path)

\* the first layer in registration order that takes the request
Handling(method, path) ==
  CHOOSE k \in 1..Len(Routes) :
    /\ LayerMatches(Routes[k], method, path)
    /\ \A j \in 1..(k - 1) : ~LayerMatches(Routes[j], method, path)

DispatchInit ==
  /\ users = << >>
  /\ catalog = << >>
  /\ clock = 0
  /\ res = Reply("none", 0)
  /\ locals \in { [route |-> "dispatch", method |-> m, path |-> p] :
                    m \in Methods, p \in RequestPaths }

Dispatch ==
  /\ res.route = "none"
  /\ res' = [ route |-> "dispatch", status |-> 0,
              layer |-> Handling(locals.method, locals.path) ]
  /\ UNCHANGED << users, catalog, clock, locals >>

DispatchNext == Dispatch

SpecDispatch == DispatchInit /\ [][DispatchNext]_vars

\* the routes registered with a method and a path
RouteIndices == {k \in 1..Len(Routes) : Routes[k].method \in Methods}

\* C30: every route registered in server.js is reachable: a request whose
\* method and path are those of a registered route is handled by that route,
\* and a request that matches a parameterised route and is the path of no
\* other route is handled by the parameterised route; none is taken by an
\* earlier parameterised route or by the catch-all 404 handler.
C30_RoutesReachable ==
  res.route = "dispatch" =>
    \A k \in RouteIndices :
      /\ (Routes[k].method = locals.method /\ Routes[k].pattern = locals.path)
           => res.layer = k
      /\ (/\ Routes[k].method = locals.method
          /\ PathMatches(Routes[k].pattern, locals.path)
          /\ \A j \in RouteIndices :
               ~(Routes[j].method = locals.method
                 /\ Routes[j].pattern = locals.path))
           => res.layer = k

====
